---- MODULE Spec2Model ----
(***************************************************************************)
(* A model of torchsample/utils.py: th_random_choice, th_iterproduct,      *)
(* th_gather_nd, th_affine_2d / th_affine_3d and the nearest, bilinear and *)
(* trilinear interpolators.                                                *)
(*                                                                         *)
(* The functions are pure; a behaviour is a sequence of calls.  `op` is    *)
(* the function whose call has just returned ("idle" between calls),       *)
(* `args` its arguments together with the outcome of the random number     *)
(* generator where the function draws from it, `ret` what the call         *)
(* produced (its value, or the exception it raised), and `build` the       *)
(* choices on which the versions of the tensor engine differ.              *)
(*                                                                         *)
(* Arithmetic is exact.  Coordinates are fixed-point numbers counted in    *)
(* units of 1/Scale; the literal 0.00001 of the trilinear clamp is kept as *)
(* a second digit (a number <<a, b>> is (a + b * Eps) / Scale with         *)
(* Eps = 10^-5), and a blended voxel value carries one digit per power of  *)
(* Eps.                                                                    *)
(***************************************************************************)
EXTENDS Integers, Sequences, FiniteSets, TLC

VARIABLES op, args, ret, build

vars == <<op, args, ret, build>>

\* the value of args and of ret between calls
None == <<>>

(***************************************************************************)
(* Bounds of the model.                                                    *)
(***************************************************************************)
\* th_iterproduct: the number of dimension sizes supplied, and their size
IterMaxRank == 4
IterMaxDim == 3
\* th_random_choice: the number of entries of a, and the number of samples
MaxN == 3
MaxSize == 2
\* tensors: the largest pixel value, the size of a spatial axis of a tensor
\* handed to th_affine_2d, the size of a spatial axis of a 3D tensor and of
\* a tensor handed to an interpolator directly, and the number of values of a
\* whole 3D tensor
MaxVal == 1
MaxHW == 3
MaxDim == 2
MaxNumel3D == 8
\* the largest entry of an affine matrix's translation column
MaxT == 1

\* coordinates are counted in units of 1/Scale: the half pixel of the
\* centring shift x.size(1) / 2. + 0.5 is one unit
Scale == 2
\* probabilities are counted in units of 1/PDen, a tenth of the tolerance
\* 1e-3, and the values of torch.rand in units of 1/RandDen
PDen == 10000
RandDen == 10000

(***************************************************************************)
(* Versions.  The TH tensor engine rounds ties away from zero and its      *)
(* clamp is (v < min) ? min : (v > max ? max : v); the ATen engine rounds  *)
(* ties to even and its clamp is min(max(v, min), max).                    *)
(***************************************************************************)
Builds == [engine : {"TH", "ATen"}]

(***************************************************************************)
(* General helpers.                                                        *)
(***************************************************************************)
Max(a, b) == IF a >= b THEN a ELSE b
Min(a, b) == IF a <= b THEN a ELSE b
Abs(a) == IF a >= 0 THEN a ELSE 0 - a

RECURSIVE SeqSum(_)
SeqSum(s) == IF s = <<>> THEN 0 ELSE Head(s) + SeqSum(Tail(s))

RECURSIVE SeqProd(_)
SeqProd(s) == IF s = <<>> THEN 1 ELSE Head(s) * SeqProd(Tail(s))

RECURSIVE Flatten(_)
Flatten(ss) == IF ss = <<>> THEN <<>> ELSE Head(ss) \o Flatten(Tail(ss))

Range(s) == {s[k] : k \in DOMAIN s}

\* the list F(s[1]), .., F(s[n])
RECURSIVE MapSeq(_, _)
MapSeq(F(_), s) == IF s = <<>> THEN <<>> ELSE <<F(Head(s))>> \o MapSeq(F, Tail(s))

\* the list 1, .., n
Indices(n) == [i \in 1..n |-> i]

\* all sequences over S of length 1..n
SeqsUpTo(S, n) == UNION {[1..k -> S] : k \in 1..n}

(***************************************************************************)
(* th_iterproduct (lines 61-74).                                           *)
(***************************************************************************)
\* torch.range(0, i-1): the values 0, 1, .., i-1 (both ends included)
TorchRange0(i) == [k \in 1..i |-> k - 1]

\* a mutant of ExpandPool: the comprehension's loops exchanged,
\* [x+[y] for y in pool for x in result]
ExpandPoolSwapped(result, pool) ==
    Flatten([k \in 1..Len(pool) |->
                [r \in 1..Len(result) |-> Append(result[r], pool[k])]])

\* line 73: [x+[y] for x in result for y in pool]
ExpandPool(result, pool) ==
    Flatten([r \in 1..Len(result) |->
                [k \in 1..Len(pool) |-> Append(result[r], pool[k])]])

\* lines 71-73: result = [[]]; for pool in pools: result = ...
RECURSIVE IterPools(_, _)
IterPools(result, pools) ==
    IF pools = <<>> THEN result
    ELSE IterPools(ExpandPool(result, Head(pools)), Tail(pools))

\* lines 63-74 for integer arguments: every pool is torch.range(0, i-1)
th_iterproduct(dims) ==
    IterPools(<< <<>> >>, [i \in 1..Len(dims) |-> TorchRange0(dims[i])])

IterInputs == SeqsUpTo(1..IterMaxDim, IterMaxRank)

CallIterProduct ==
    /\ op = "idle"
    /\ \E dims \in IterInputs :
          /\ op' = "th_iterproduct"
          /\ args' = [dims |-> dims]
          /\ ret' = th_iterproduct(dims)
    /\ UNCHANGED build

Return ==
    /\ op # "idle"
    /\ op' = "idle"
    /\ args' = None
    /\ ret' = None
    /\ UNCHANGED build

InitIter ==
    /\ op = "idle" /\ args = None /\ ret = None
    /\ build \in Builds

NextIter == CallIterProduct \/ Return

SpecIter == InitIter /\ [][NextIter]_vars

\* the mixed-radix digit i of row number r (rows and digits counted from 0)
Digit(dims, r, i) ==
    (r \div SeqProd(SubSeq(dims, i + 1, Len(dims)))) % dims[i]

\* C1: th_iterproduct(d_1..d_D) returns d_1*..*d_D rows of D entries, pairwise
\* distinct, entry i of every row in [0, d_i), in row-major order: row number r
\* holds the mixed-radix digits of r, the last dimension varying fastest.
C1_IterProduct ==
    op = "th_iterproduct" =>
        LET dims == args.dims IN
        /\ Len(ret) = SeqProd(dims)
        /\ \A r \in 1..Len(ret) :
              /\ Len(ret[r]) = Len(dims)
              /\ \A i \in 1..Len(dims) :
                    /\ ret[r][i] \in 0..(dims[i] - 1)
                    /\ ret[r][i] = Digit(dims, r - 1, i)
        /\ \A r, s \in 1..Len(ret) : r # s => ret[r] # ret[s]

\* a product of three different sizes has been enumerated
C1_Witness ==
    /\ op = "th_iterproduct"
    /\ args.dims = <<2, 3, 2>>
    /\ Len(ret) = 12
    /\ ret[2] = <<0, 0, 1>>
    /\ ret[3] = <<0, 1, 0>>

(***************************************************************************)
(* Tensors.  A tensor of shape (C, d_1, .., d_n) is its list of sizes and, *)
(* per channel, the flat contiguous buffer of its d_1*..*d_n values.       *)
(***************************************************************************)
Tensor(sizes, data) == [sizes |-> sizes, data |-> data]

\* x.size(0) and x[i].size()
Channels(x) == Len(x.data)

\* the number of values of one channel
Numel(sizes) ==
    IF Len(sizes) = 2 THEN sizes[1] * sizes[2] ELSE sizes[1] * sizes[2] * sizes[3]

\* the tensors of C channels of these sizes that are constant, or 0 except
\* for one value.  Every interpolator is linear in the tensor for fixed
\* coordinates, and these tensors span all tensors of the shape: the tensors
\* with one value show the weight of each pixel, the constant ones their sum.
PointTensors(sizes, C) ==
    LET n == Numel(sizes)
    IN  {Tensor(sizes, [c \in 1..C |-> [k \in 1..n |-> w]]) : w \in 0..MaxVal}
        \cup {Tensor(sizes, [c \in 1..C |-> [k \in 1..n |->
                              IF c = pc /\ k = pk THEN v ELSE 0]]) :
                 pc \in 1..C, pk \in 1..n, v \in 1..MaxVal}

\* the numbers of channels of the tensors drawn
ChannelCounts == {1, 2}

\* x.stride() of a contiguous tensor of these sizes
Strides(sizes) ==
    IF Len(sizes) = 2 THEN << sizes[2], 1 >> ELSE << sizes[2] * sizes[3], sizes[3], 1 >>

\* line 82: coords.mv(torch.LongTensor(x.stride())), for one row of coords
FlatOffset(sizes, q) ==
    LET stride == Strides(sizes)
    IN  IF Len(sizes) = 2 THEN q[1] * stride[1] + q[2] * stride[2]
        ELSE q[1] * stride[1] + q[2] * stride[2] + q[3] * stride[3]

\* line 83: index_select raises for an index outside [0, numel)
GatherOK(sizes, q) == FlatOffset(sizes, q) \in 0..(Numel(sizes) - 1)

\* lines 81-84 for one row of coords: the value at the flat offset
th_gather_nd(flat, sizes, q) == flat[FlatOffset(sizes, q) + 1]

(***************************************************************************)
(* Fixed-point coordinates (units of 1/Scale).                             *)
(***************************************************************************)
\* torch.clamp(v, lo, hi)
Clamp(v, lo, hi) ==
    IF build.engine = "TH"
    THEN IF v < lo THEN lo ELSE IF v > hi THEN hi ELSE v
    ELSE Min(Max(v, lo), hi)

\* tensor.floor() and tensor.ceil(), as integers
Floor(v) == v \div Scale
Ceil(v) == -((-v) \div Scale)

\* tensor.round(), as an integer
Round(v) ==
    LET f == v \div Scale
        r == v % Scale
    IN  IF 2 * r < Scale THEN f
        ELSE IF 2 * r > Scale THEN f + 1
        ELSE IF build.engine = "TH"
             THEN (IF v >= 0 THEN f + 1 ELSE f)
             ELSE (IF f % 2 = 0 THEN f ELSE f + 1)

(***************************************************************************)
(* th_nearest_interp_2d (lines 149-165) and th_bilinear_interp_2d          *)
(* (lines 168-208).  coords[c][k] is the coordinate row of output pixel k  *)
(* of channel c.  The result holds the rows handed to th_gather_nd, the    *)
(* exception if a gather raised, and otherwise the output values, counted  *)
(* in units of 1/den.                                                      *)
(***************************************************************************)
Raised(gather) ==
    [err |-> "IndexError", gather |-> gather, den |-> 1, out |-> None, corner |-> None]

Returned(gather, den, out, corner) ==
    [err |-> "none", gather |-> gather, den |-> den, out |-> out, corner |-> corner]

\* the outcome of a call from what it did for every output pixel: px[c][k]
\* holds the rows handed to th_gather_nd for pixel k of channel c, whether
\* every one of them is inside the buffer, the values gathered and the
\* pixel's value
Outcome(px, den) ==
    LET gather == UNION {px[c][k].rows : c \in DOMAIN px, k \in DOMAIN px[1]}
    IN  IF \E c \in DOMAIN px, k \in DOMAIN px[1] : ~px[c][k].ok THEN Raised(gather)
        ELSE Returned(gather, den,
                 [c \in DOMAIN px |-> [k \in DOMAIN px[1] |-> px[c][k].val]],
                 [c \in DOMAIN px |-> [k \in DOMAIN px[1] |-> px[c][k].vals]])

\* lines 154-159: clamp to the image bounds, round to the nearest index
NearestIndex2D(sizes, q) ==
    << Round(Clamp(q[1], 0, (sizes[1] - 1) * Scale)),
       Round(Clamp(q[2], 0, (sizes[2] - 1) * Scale)) >>

\* lines 154-163 for one output pixel with coordinate row q
NearestPixel2D(flat, sizes, q) ==
    LET idx == NearestIndex2D(sizes, q)
        ok == GatherOK(sizes, idx)
    IN  [rows |-> {idx}, ok |-> ok,
         vals |-> IF ok THEN {th_gather_nd(flat, sizes, idx)} ELSE {},
         val |-> IF ok THEN th_gather_nd(flat, sizes, idx) ELSE None]

\* a coordinate array: a.dim is coords.dim(), 3 for one list of rows per
\* channel and 2 for one list of rows
CoordsArray(dim, a) == [dim |-> dim, a |-> a]

\* lines 181-182, 290-291, 323-324: repeat coords along the channel dim if
\* not given that way
RepeatCoords(coords, C) == IF coords.dim = 2 THEN [c \in 1..C |-> coords.a] ELSE coords.a

th_nearest_interp_2d(input, coords) ==
    LET rep == coords.a
    IN  Outcome(MapSeq(LAMBDA c : MapSeq(LAMBDA q : NearestPixel2D(input.data[c], input.sizes, q),
                                         rep[c]),
                       Indices(Channels(input))), 1)

\* lines 184-186: the clamped coordinate row
BilinearClamp2D(sizes, q) ==
    << Clamp(q[1], 0, (sizes[1] - 1) * Scale),
       Clamp(q[2], 0, (sizes[2] - 1) * Scale) >>

\* a mutant of BilinearOffset2D: the offset taken from coords_rb
BilinearOffsetFromRB2D(p, q) ==
    << p[1] - Scale * Ceil(p[1]), p[2] - Scale * Ceil(p[2]) >>

\* line 202: coords_offset_lt = coords - coords_lt, p the clamped row of q
BilinearOffset2D(p, q) ==
    << p[1] - Scale * Floor(p[1]), p[2] - Scale * Floor(p[2]) >>

\* lines 204-206, in units of 1/Scale^2
BilinearBlend2D(lt, rt, lb, rb, off) ==
    LET vals_t == Scale * lt + (rt - lt) * off[1]
        vals_b == Scale * lb + (rb - lb) * off[1]
    IN  Scale * vals_t + (vals_b - vals_t) * off[2]

\* lines 184-206 for one output pixel with coordinate row q
BilinearPixel2D(flat, sizes, q) ==
    LET p == BilinearClamp2D(sizes, q)
        coords_lt == << Floor(p[1]), Floor(p[2]) >>
        coords_rb == << Ceil(p[1]), Ceil(p[2]) >>
        coords_lb == << coords_lt[1], coords_rb[2] >>
        coords_rt == << coords_rb[1], coords_lt[2] >>
        rows == {coords_lt, coords_rb, coords_lb, coords_rt}
        ok == \A r \in rows : GatherOK(sizes, r)
    IN  [rows |-> rows, ok |-> ok,
         vals |-> IF ok THEN {th_gather_nd(flat, sizes, r) : r \in rows} ELSE {},
         val |-> IF ok
                 THEN BilinearBlend2D(th_gather_nd(flat, sizes, coords_lt),
                                      th_gather_nd(flat, sizes, coords_rt),
                                      th_gather_nd(flat, sizes, coords_lb),
                                      th_gather_nd(flat, sizes, coords_rb),
                                      BilinearOffset2D(p, q))
                 ELSE None]

th_bilinear_interp_2d(input, coords) ==
    LET rep == RepeatCoords(coords, Channels(input))
    IN  Outcome(MapSeq(LAMBDA c : MapSeq(LAMBDA q : BilinearPixel2D(input.data[c], input.sizes, q),
                                         rep[c]),
                       Indices(Channels(input))), Scale * Scale)

(***************************************************************************)
(* th_affine_2d (lines 87-146).  A matrix is its rows <<a, b, t>>; the     *)
(* argument is one matrix (matrix.dim() == 2) or one matrix per channel.   *)
(***************************************************************************)
\* lines 117-118
Broadcast(matrix, C) == IF matrix.dim = 2 THEN [c \in 1..C |-> matrix.m] ELSE matrix.m

\* lines 129-130, 137-138: x.size(i) / 2. + 0.5
CenterShift(size) == (size * Scale) \div 2 + Scale \div 2

\* lines 129-130, 263-265: coordinate j of grid row q, shifted so that the
\* centre is the origin
Centred(sizes, center, q, j) ==
    q[j] * Scale - (IF center THEN CenterShift(sizes[j]) ELSE 0)

\* a mutant of Translation: the translation column subtracted
TranslationNegated(M, k, n) == 0 - M[k][n + 1] * Scale

\* lines 121, 255: b = matrix[:,:n,n], entry k
Translation(M, k, n) == M[k][n + 1] * Scale

\* a mutant of ShiftBack: the shift back is by x.size(i) / 2. - 0.5
ShiftBackShort(size, center) == IF center THEN CenterShift(size) - Scale ELSE 0

\* lines 137-138, 272-274: shift the coordinates back
ShiftBack(size, center) == IF center THEN CenterShift(size) ELSE 0

\* lines 133, 268: entry k of coords . A^T + b for grid row q
Transformed(sizes, M, center, q, k) ==
    IF Len(sizes) = 2
    THEN Centred(sizes, center, q, 1) * M[k][1] + Centred(sizes, center, q, 2) * M[k][2]
         + Translation(M, k, 2)
    ELSE Centred(sizes, center, q, 1) * M[k][1] + Centred(sizes, center, q, 2) * M[k][2]
         + Centred(sizes, center, q, 3) * M[k][3] + Translation(M, k, 3)

\* lines 127-138 (and 261-274) for one row q of the index grid
AffineCoords(sizes, M, center, q) ==
    IF Len(sizes) = 2
    THEN << Transformed(sizes, M, center, q, 1) + ShiftBack(sizes[1], center),
            Transformed(sizes, M, center, q, 2) + ShiftBack(sizes[2], center) >>
    ELSE << Transformed(sizes, M, center, q, 1) + ShiftBack(sizes[1], center),
            Transformed(sizes, M, center, q, 2) + ShiftBack(sizes[2], center),
            Transformed(sizes, M, center, q, 3) + ShiftBack(sizes[3], center) >>

\* lines 124-138: the transformed grid, per channel
NewCoords(x, matrix, center) ==
    LET grid == th_iterproduct(x.sizes)
        Ms == Broadcast(matrix, Channels(x))
    IN  CoordsArray(3, MapSeq(LAMBDA c :
                                  MapSeq(LAMBDA q : AffineCoords(x.sizes, Ms[c], center, q),
                                         grid),
                              Indices(Channels(x))))

th_affine_2d(x, matrix, mode, center) ==
    IF mode = "nearest" THEN th_nearest_interp_2d(x, NewCoords(x, matrix, center))
    ELSE th_bilinear_interp_2d(x, NewCoords(x, matrix, center))

\* the inputs: shapes, tensors and matrices
Tensors2D ==
    UNION {PointTensors(sizes, C) : sizes \in [1..2 -> 1..MaxHW], C \in ChannelCounts}

Identity2D == << <<1, 0, 0>>, <<0, 1, 0>> >>

\* the linear parts: the identity, the half turn -I and the transpose
LinearParts2D ==
    { << <<1, 0>>, <<0, 1>> >>, << <<-1, 0>>, <<0, -1>> >>, << <<0, 1>>, <<1, 0>> >> }

Affine2D(A, t) == << <<A[1][1], A[1][2], t[1]>>, <<A[2][1], A[2][2], t[2]>> >>

\* every linear part without translation, and every pure translation
Matrices2D ==
    {[dim |-> 2, m |-> Affine2D(A, <<0, 0>>)] : A \in LinearParts2D}
    \cup {[dim |-> 2, m |-> Affine2D(<< <<1, 0>>, <<0, 1>> >>, t)] :
             t \in [1..2 -> -MaxT..MaxT]}

\* one matrix per channel: the identity for some channels, a translation
\* or the half turn for the others
BatchMatrices2D(C) ==
    {[dim |-> 3, m |-> ms] :
        ms \in [1..C -> {Identity2D, << <<1, 0, 1>>, <<0, 1, -1>> >>,
                         << <<-1, 0, 0>>, <<0, -1, 0>> >>}]}

CallAffine2D ==
    /\ op = "idle"
    /\ \E x \in Tensors2D, mode \in {"nearest", "bilinear"}, center \in BOOLEAN :
       \E matrix \in Matrices2D \cup BatchMatrices2D(Channels(x)) :
          /\ op' = "th_affine_2d"
          /\ args' = [x |-> x, matrix |-> matrix, mode |-> mode, center |-> center]
          /\ ret' = th_affine_2d(x, matrix, mode, center)
    /\ UNCHANGED build

InitAffine2D ==
    /\ op = "idle" /\ args = None /\ ret = None
    /\ build \in Builds

NextAffine2D == CallAffine2D \/ Return

SpecAffine2D == InitAffine2D /\ [][NextAffine2D]_vars

\* pixel (i, j) of channel c of a 2D tensor, indices counted from 0
Pixel(x, c, i, j) == x.data[c][i * x.sizes[2] + j + 1]

\* the same pixel of a returned tensor
OutPixel(x, c, i, j) == ret.out[c][i * x.sizes[2] + j + 1]

IsIdentityCall2D ==
    /\ op = "th_affine_2d"
    /\ args.matrix = [dim |-> 2, m |-> Identity2D]
    /\ args.center

\* C2: th_affine_2d(x, identity, mode, center=True) returns a tensor equal to
\* x at every position, in nearest and in bilinear mode.
C2_Identity2D ==
    IsIdentityCall2D =>
        /\ ret.err = "none"
        /\ \A c \in 1..Channels(args.x) :
           \A i \in 0..(args.x.sizes[1] - 1), j \in 0..(args.x.sizes[2] - 1) :
              OutPixel(args.x, c, i, j) = ret.den * Pixel(args.x, c, i, j)

\* a bilinear identity call on a 2x3 image that is not constant
C2_Witness ==
    /\ IsIdentityCall2D
    /\ args.mode = "bilinear"
    /\ args.x = Tensor(<<2, 3>>, << <<0, 0, 0, 0, 1, 0>> >>)
    /\ ret.err = "none"
    /\ ret.out = << <<0, 0, 0, 0, Scale * Scale, 0>> >>

(***************************************************************************)
(* Numbers with an Eps digit.  <<a, b>> is (a + b * Eps) / Scale, where    *)
(* Eps = 0.00001 is the literal of lines 327, 332 and 337; b stays so      *)
(* small that the order is decided by a first and by b second.  A blended  *)
(* value <<c0, c1, c2, c3>> is (c0 + c1*Eps + c2*Eps^2 + c3*Eps^3)         *)
(* / Scale^3.                                                              *)
(***************************************************************************)
\* the literal 1.00001
One00001 == << Scale, Scale >>

PairLess(p, q) == p[1] < q[1] \/ (p[1] = q[1] /\ p[2] < q[2])

\* torch.clamp(v, lo, hi)
PairClamp(v, lo, hi) ==
    IF build.engine = "TH"
    THEN IF PairLess(v, lo) THEN lo ELSE IF PairLess(hi, v) THEN hi ELSE v
    ELSE LET m == IF PairLess(v, lo) THEN lo ELSE v
         IN  IF PairLess(hi, m) THEN hi ELSE m

\* tensor.floor(), as an integer
PairFloor(p) == IF p[2] >= 0 THEN p[1] \div Scale ELSE (p[1] - 1) \div Scale

PolyConst(v) == << v, 0, 0, 0 >>

PolyAdd(p, q) == << p[1] + q[1], p[2] + q[2], p[3] + q[3], p[4] + q[4] >>

\* the product of a blended value and a number with an Eps digit
PolyTimes(p, w) ==
    << p[1] * w[1], p[2] * w[1] + p[1] * w[2],
       p[3] * w[1] + p[2] * w[2], p[4] * w[1] + p[3] * w[2] >>

\* the sign of q - p is that of its first digit that is not 0
PolyLeq(p, q) ==
    \/ p = q
    \/ \E i \in 1..4 : p[i] < q[i] /\ \A j \in 1..(i - 1) : p[j] = q[j]

(***************************************************************************)
(* th_nearest_interp_3d (lines 285-307) and th_bilinear_interp_3d          *)
(* (lines 310-387).                                                        *)
(***************************************************************************)
\* lines 294-301: clamp to the image bounds, round to the nearest index
NearestIndex3D(sizes, q) ==
    << Round(Clamp(q[1], 0, (sizes[1] - 1) * Scale)),
       Round(Clamp(q[2], 0, (sizes[2] - 1) * Scale)),
       Round(Clamp(q[3], 0, (sizes[3] - 1) * Scale)) >>

\* lines 294-305 for one output voxel with coordinate row q
NearestPixel3D(flat, sizes, q) ==
    LET idx == NearestIndex3D(sizes, q)
        ok == GatherOK(sizes, idx)
    IN  [rows |-> {idx}, ok |-> ok,
         vals |-> IF ok THEN {th_gather_nd(flat, sizes, idx)} ELSE {},
         val |-> IF ok THEN th_gather_nd(flat, sizes, idx) ELSE None]

th_nearest_interp_3d(input, coords) ==
    LET rep == RepeatCoords(coords, Channels(input))
    IN  Outcome(MapSeq(LAMBDA c : MapSeq(LAMBDA q : NearestPixel3D(input.data[c], input.sizes, q),
                                         rep[c]),
                       Indices(Channels(input))), 1)

\* lines 327, 332, 337: torch.clamp(coords[:,:,i], 0, input.size(i+1)-1.00001)
TrilinearClamp(v, size) ==
    PairClamp(<< v, 0 >>, << 0, 0 >>,
              << size * Scale - One00001[1], 0 - One00001[2] >>)

\* a mutant of TrilinearFrac: the distance measured from x1
TrilinearFracFromX1(x, x0, x1) ==
    << (x[1] - Scale * x1) \div (x1 - x0), x[2] \div (x1 - x0) >>

\* lines 370-372: xd = (x-x0) / (x1-x0)
TrilinearFrac(x, x0, x1) ==
    << (x[1] - Scale * x0) \div (x1 - x0), x[2] \div (x1 - x0) >>

\* 1 - xd
OneMinus(xd) == << Scale - xd[1], 0 - xd[2] >>

\* lines 375-385: a*(1-d) + b*d
Lerp(a, b, d) == PolyAdd(PolyTimes(a, OneMinus(d)), PolyTimes(b, d))

\* lines 327-385 for one output voxel with coordinate row q
TrilinearPixel(flat, sizes, q) ==
    LET x == TrilinearClamp(q[1], sizes[1])
        x0 == PairFloor(x)
        x1 == x0 + 1
        y == TrilinearClamp(q[2], sizes[2])
        y0 == PairFloor(y)
        y1 == y0 + 1
        z == TrilinearClamp(q[3], sizes[3])
        z0 == PairFloor(z)
        z1 == z0 + 1
        rows == {<< a, b, c >> : a \in {x0, x1}, b \in {y0, y1}, c \in {z0, z1}}
        ok == \A r \in rows : GatherOK(sizes, r)
        vals(a, b, c) == PolyConst(th_gather_nd(flat, sizes, << a, b, c >>))
        xd == TrilinearFrac(x, x0, x1)
        yd == TrilinearFrac(y, y0, y1)
        zd == TrilinearFrac(z, z0, z1)
        c00 == Lerp(vals(x0, y0, z0), vals(x1, y0, z0), xd)
        c01 == Lerp(vals(x0, y0, z1), vals(x1, y0, z1), xd)
        c10 == Lerp(vals(x0, y1, z0), vals(x1, y1, z0), xd)
        c11 == Lerp(vals(x0, y1, z1), vals(x1, y1, z1), xd)
        c0 == Lerp(c00, c10, yd)
        c1 == Lerp(c01, c11, yd)
    IN  [rows |-> rows, ok |-> ok,
         vals |-> IF ok THEN {th_gather_nd(flat, sizes, r) : r \in rows} ELSE {},
         val |-> IF ok THEN Lerp(c0, c1, zd) ELSE None]

th_bilinear_interp_3d(input, coords) ==
    LET rep == RepeatCoords(coords, Channels(input))
    IN  Outcome(MapSeq(LAMBDA c : MapSeq(LAMBDA q : TrilinearPixel(input.data[c], input.sizes, q),
                                         rep[c]),
                       Indices(Channels(input))), Scale * Scale * Scale)

(***************************************************************************)
(* th_affine_3d (lines 211-282).                                           *)
(***************************************************************************)
th_affine_3d(x, matrix, mode, center) ==
    IF mode = "nearest" THEN th_nearest_interp_3d(x, NewCoords(x, matrix, center))
    ELSE th_bilinear_interp_3d(x, NewCoords(x, matrix, center))

Tensors3D ==
    UNION {IF C * Numel(sizes) <= MaxNumel3D THEN PointTensors(sizes, C) ELSE {} :
              sizes \in [1..3 -> 1..MaxDim], C \in ChannelCounts}

Identity3D == << <<1, 0, 0, 0>>, <<0, 1, 0, 0>>, <<0, 0, 1, 0>> >>

\* the linear parts: the identity, the point reflection -I and a cyclic
\* exchange of the axes
LinearParts3D ==
    { << <<1, 0, 0>>, <<0, 1, 0>>, <<0, 0, 1>> >>,
      << <<-1, 0, 0>>, <<0, -1, 0>>, <<0, 0, -1>> >>,
      << <<0, 1, 0>>, <<0, 0, 1>>, <<1, 0, 0>> >> }

Affine3D(A, t) == [k \in 1..3 |-> Append(A[k], t[k])]

Matrices3D ==
    {[dim |-> 2, m |-> Affine3D(A, <<0, 0, 0>>)] : A \in LinearParts3D}
    \cup {[dim |-> 2, m |-> Affine3D(<< <<1, 0, 0>>, <<0, 1, 0>>, <<0, 0, 1>> >>, t)] :
             t \in [1..3 -> -MaxT..MaxT]}

BatchMatrices3D(C) ==
    {[dim |-> 3, m |-> ms] :
        ms \in [1..C -> {Identity3D, << <<1, 0, 0, 1>>, <<0, 1, 0, 0>>, <<0, 0, 1, -1>> >>}]}

CallAffine3D ==
    /\ op = "idle"
    /\ \E x \in Tensors3D, mode \in {"nearest", "bilinear"}, center \in BOOLEAN :
       \E matrix \in Matrices3D \cup BatchMatrices3D(Channels(x)) :
          /\ op' = "th_affine_3d"
          /\ args' = [x |-> x, matrix |-> matrix, mode |-> mode, center |-> center]
          /\ ret' = th_affine_3d(x, matrix, mode, center)
    /\ UNCHANGED build

InitAffine3D ==
    /\ op = "idle" /\ args = None /\ ret = None
    /\ build \in Builds

NextAffine3D == CallAffine3D \/ Return

SpecAffine3D == InitAffine3D /\ [][NextAffine3D]_vars

IsIdentityCall3D ==
    /\ op = "th_affine_3d"
    /\ args.matrix = [dim |-> 2, m |-> Identity3D]
    /\ args.center

\* C3: th_affine_3d(x, identity, mode, center=True) reproduces x at every
\* voxel, the voxels on the last index of an axis included, in nearest and in
\* bilinear mode.
C3_Identity3D ==
    IsIdentityCall3D =>
        /\ ret.err = "none"
        /\ \A c \in 1..Channels(args.x), k \in 1..Numel(args.x.sizes) :
              ret.out[c][k] = IF args.mode = "nearest" THEN args.x.data[c][k]
                              ELSE PolyConst(ret.den * args.x.data[c][k])

\* the index an out-of-bounds sample falls back to
ClampIndex(i, size) == Max(0, Min(i, size - 1))

IsTranslationCall2D ==
    /\ op = "th_affine_2d"
    /\ args.matrix.dim = 2
    /\ args.matrix.m[1][1] = 1 /\ args.matrix.m[1][2] = 0
    /\ args.matrix.m[2][1] = 0 /\ args.matrix.m[2][2] = 1

\* C4: for a pure-translation matrix [[1,0,t0],[0,1,t1]] with integer t0, t1,
\* th_affine_2d (either mode, either value of center) returns
\* out[c,i,j] = x[c, clamp(i+t0, 0, H-1), clamp(j+t1, 0, W-1)].
C4_Translation2D ==
    IsTranslationCall2D =>
        LET x == args.x
            t0 == args.matrix.m[1][3]
            t1 == args.matrix.m[2][3]
        IN  /\ ret.err = "none"
            /\ \A c \in 1..Channels(x) :
               \A i \in 0..(x.sizes[1] - 1), j \in 0..(x.sizes[2] - 1) :
                  OutPixel(x, c, i, j) =
                      ret.den * Pixel(x, c, ClampIndex(i + t0, x.sizes[1]),
                                            ClampIndex(j + t1, x.sizes[2]))

\* a translation by (1, -1) of a 3x3 image without centring: the middle
\* pixel (1, 1) is read by output pixel (0, 2)
C4_Witness ==
    /\ IsTranslationCall2D
    /\ args.matrix.m[1][3] = 1 /\ args.matrix.m[2][3] = -1
    /\ ~args.center
    /\ args.mode = "nearest"
    /\ args.x = Tensor(<<3, 3>>, << <<0, 0, 0, 0, 1, 0, 0, 0, 0>> >>)
    /\ ret.out = << <<0, 0, 1, 0, 0, 0, 0, 0, 0>> >>

IsHalfTurnCall2D ==
    /\ op = "th_affine_2d"
    /\ args.matrix = [dim |-> 2, m |-> << <<-1, 0, 0>>, <<0, -1, 0>> >>]
    /\ args.center
    /\ args.mode = "nearest"

\* C10: with center=True and zero translation the linear part acts about the
\* middle ((H-1)/2, (W-1)/2) of the index grid, so for A = -I in nearest mode
\* the output is the point reflection out[c,i,j] = x[c, H-1-i, W-1-j].
C10_PointReflection ==
    IsHalfTurnCall2D =>
        LET x == args.x
        IN  /\ ret.err = "none"
            /\ \A c \in 1..Channels(x) :
               \A i \in 0..(x.sizes[1] - 1), j \in 0..(x.sizes[2] - 1) :
                  OutPixel(x, c, i, j) =
                      Pixel(x, c, x.sizes[1] - 1 - i, x.sizes[2] - 1 - j)

(***************************************************************************)
(* The interpolators called on their own, with coordinates of any value.   *)
(* Every output pixel is computed from its own coordinate row alone, so    *)
(* the arrays drawn give all pixels the same row q; q ranges from half a   *)
(* pixel below 0 to half a pixel above the last index on every axis.       *)
(***************************************************************************)
CoordRows(sizes) == {q \in [1..Len(sizes) -> -1..(MaxDim * Scale)] :
                        \A i \in 1..Len(sizes) : q[i] <= (sizes[i] - 1) * Scale + 1}

\* the 2D tensors handed to an interpolator directly
InterpTensors2D == {x \in Tensors2D : \A i \in 1..2 : x.sizes[i] <= MaxDim}

\* coords.dim(): a single list of rows is drawn where repeating it matters
CoordDims(x) == IF Channels(x) > 1 THEN {2, 3} ELSE {3}

ConstantCoords(x, dim, q) ==
    LET rows == [k \in 1..Numel(x.sizes) |-> q]
    IN  CoordsArray(dim, IF dim = 2 THEN rows ELSE [c \in 1..Channels(x) |-> rows])

CallNearest2D ==
    /\ op = "idle"
    /\ \E x \in InterpTensors2D : \E q \in CoordRows(x.sizes) :
          /\ op' = "th_nearest_interp_2d"
          /\ args' = [x |-> x, coords |-> ConstantCoords(x, 3, q)]
          /\ ret' = th_nearest_interp_2d(x, ConstantCoords(x, 3, q))
    /\ UNCHANGED build

CallBilinear2D ==
    /\ op = "idle"
    /\ \E x \in InterpTensors2D : \E q \in CoordRows(x.sizes), dim \in CoordDims(x) :
          /\ op' = "th_bilinear_interp_2d"
          /\ args' = [x |-> x, coords |-> ConstantCoords(x, dim, q)]
          /\ ret' = th_bilinear_interp_2d(x, ConstantCoords(x, dim, q))
    /\ UNCHANGED build

CallNearest3D ==
    /\ op = "idle"
    /\ \E x \in Tensors3D : \E q \in CoordRows(x.sizes), dim \in CoordDims(x) :
          /\ op' = "th_nearest_interp_3d"
          /\ args' = [x |-> x, coords |-> ConstantCoords(x, dim, q)]
          /\ ret' = th_nearest_interp_3d(x, ConstantCoords(x, dim, q))
    /\ UNCHANGED build

CallBilinear3D ==
    /\ op = "idle"
    /\ \E x \in Tensors3D : \E q \in CoordRows(x.sizes), dim \in CoordDims(x) :
          /\ op' = "th_bilinear_interp_3d"
          /\ args' = [x |-> x, coords |-> ConstantCoords(x, dim, q)]
          /\ ret' = th_bilinear_interp_3d(x, ConstantCoords(x, dim, q))
    /\ UNCHANGED build

InitInterp ==
    /\ op = "idle" /\ args = None /\ ret = None
    /\ build \in Builds

NextInterp == CallNearest2D \/ CallBilinear2D \/ CallNearest3D \/ CallBilinear3D \/ Return

SpecInterp == InitInterp /\ [][NextInterp]_vars

IsInterpCall ==
    op \in {"th_nearest_interp_2d", "th_bilinear_interp_2d",
            "th_nearest_interp_3d", "th_bilinear_interp_3d"}

SetMin(S) == CHOOSE v \in S : \A w \in S : v <= w
SetMax(S) == CHOOSE v \in S : \A w \in S : v >= w

\* C5: each output value of nearest interpolation (2D and 3D) equals a value
\* present in the same channel of the source, and each output value of
\* bilinear / trilinear interpolation lies between the minimum and the maximum
\* of the 4 (2D) or 8 (3D) corner values it blends.
C5_ConvexHull ==
    (IsInterpCall /\ ret.err = "none") =>
        \A c \in 1..Channels(args.x), k \in 1..Numel(args.x.sizes) :
            LET v == ret.out[c][k]
                corner == ret.corner[c][k]
            IN  /\ corner # {}
                /\ corner \subseteq Range(args.x.data[c])
                /\ op \in {"th_nearest_interp_2d", "th_nearest_interp_3d"} =>
                      v \in Range(args.x.data[c])
                /\ op = "th_bilinear_interp_2d" =>
                      /\ ret.den * SetMin(corner) <= v
                      /\ v <= ret.den * SetMax(corner)
                /\ op = "th_bilinear_interp_3d" =>
                      /\ PolyLeq(PolyConst(ret.den * SetMin(corner)), v)
                      /\ PolyLeq(v, PolyConst(ret.den * SetMax(corner)))

\* a trilinear call that blends corners of different values with weights
\* strictly between 0 and 1
C5_Witness ==
    /\ op = "th_bilinear_interp_3d"
    /\ ret.err = "none"
    /\ args.x.sizes = <<2, 2, 2>>
    /\ ret.corner[1][1] = {0, 1}
    /\ ret.out[1][1] # PolyConst(0)
    /\ ret.out[1][1] # PolyConst(ret.den)

\* C8: in every call of the four interpolators, for all spatial sizes >= 1
\* and every coordinate, each row handed to th_gather_nd lies in [0, dim_i) on
\* every axis i, so the flat offset is in [0, numel) and no gather is out of
\* range.
C8_GatherInRange ==
    IsInterpCall =>
        /\ \A q \in ret.gather : \A i \in 1..Len(args.x.sizes) :
              q[i] \in 0..(args.x.sizes[i] - 1)
        /\ \A q \in ret.gather : GatherOK(args.x.sizes, q)
        /\ ret.err = "none"

(***************************************************************************)
(* th_random_choice (lines 17-58).  An optional argument is None or        *)
(* <<value>>.  `rng` is what the generator returns in the call: rng.rand   *)
(* the values of torch.rand(size), rng.perm the value of torch.randperm.   *)
(***************************************************************************)
Some(v) == << v >>

\* line 55: the factor of round(p[i]*1000)
PoolFactor == 1000
\* line 56: 999.99, in hundredths
IndexSpan == 99999
\* line 51: the tolerance 1e-3 is 1/SumTolerance
SumTolerance == 1000

\* line 51: abs(1.0-sum(p)) > 1e-3
BadSum(pv) == Abs(PDen - SeqSum(pv)) * SumTolerance > PDen

\* line 55: round(p[i]*1000); the probabilities drawn are never on a tie
PoolCount(k) == (k * PoolFactor + PDen \div 2) \div PDen

\* line 55: idx_vec, the concatenation of round(p[i]*1000) copies of i, as
\* the list of the numbers of copies
PoolCounts(pv) == [i \in 1..Len(pv) |-> PoolCount(pv[i])]

\* the length of idx_vec
PoolLen(counts) == SeqSum(counts)

\* idx_vec[j] for j in [0, len): the entry whose run of copies holds slot j
RECURSIVE PoolAt(_, _, _)
PoolAt(counts, j, i) ==
    IF j < counts[i] THEN i - 1 ELSE PoolAt(counts, j - counts[i], i + 1)

\* line 56: torch.floor(torch.rand(size)*999.99), for one value r / RandDen
PoolDraw(r) == (r * IndexSpan) \div (100 * RandDen)

\* line 47: torch.floor(torch.rand(size)*a.size(0)), for one value r / RandDen
UniformDraw(r, n) == (r * n) \div RandDen

\* a mutant of SliceFirst: the slice taken one element too long
SliceFirstInclusive(perm, size) == SubSeq(perm, 1, Min(size + 1, Len(perm)))

\* line 49: torch.randperm(a.size(0))[:size]
SliceFirst(perm, size) == SubSeq(perm, 1, Min(size, Len(perm)))

ChoiceRaised(err, pool) == [err |-> err, samples |-> None, pool |-> pool]

\* line 58: a[idx], an index error if an index is outside a
IndexInto(av, idx, pool) ==
    IF \E j \in 1..Len(idx) : idx[j] \notin 0..(Len(av) - 1)
    THEN ChoiceRaised("IndexError", pool)
    ELSE [err |-> "none", samples |-> [j \in 1..Len(idx) |-> av[idx[j] + 1]], pool |-> pool]

th_random_choice(a, size, replace, p, rng) ==
    LET size1 == IF size = None THEN 1 ELSE size[1]
        av == IF a.kind = "int" THEN TorchRange0(a.n) ELSE a.t
    IN  IF p = None
        THEN IF replace
             THEN IndexInto(av, [j \in 1..size1 |-> UniformDraw(rng.rand[j], Len(av))], None)
             ELSE IndexInto(av, SliceFirst(rng.perm, size1), None)
        ELSE IF BadSum(p[1]) THEN ChoiceRaised("ValueError: p must sum to 1.0", None)
        ELSE IF ~replace
             THEN ChoiceRaised("ValueError: replace must equal true if probabilities given",
                               None)
        ELSE LET counts == PoolCounts(p[1])
                 draw == [j \in 1..size1 |-> PoolDraw(rng.rand[j])]
             IN  IF \E j \in 1..size1 : draw[j] >= PoolLen(counts)
                 THEN ChoiceRaised("IndexError", counts)
                 ELSE IndexInto(av, [j \in 1..size1 |-> PoolAt(counts, draw[j], 1)], counts)

\* the inputs.  a is an integer n or a tensor of n values
ChoiceSources ==
    {[kind |-> "int", n |-> n, t |-> None] : n \in 1..MaxN}
    \cup {[kind |-> "tensor", n |-> 0, t |-> [i \in 1..n |-> MaxN + i]] : n \in 1..MaxN}

SourceLen(a) == IF a.kind = "int" THEN a.n ELSE Len(a.t)

\* probabilities: 0, values that round down to 0 and up to 1 slot, thirds,
\* halves and 1
PVals == {0, 4, 6, 3333, 3334, 4994, 5000, 10000}

\* the probability vectors of n entries; a sum exactly 1e-3 off 1.0 is
\* left out, where the rounding of the floating-point sum decides line 51
PVecs(n) == {pv \in [1..n -> PVals] : Abs(PDen - SeqSum(pv)) * SumTolerance # PDen}

\* the values torch.rand returns: the ends of [0, 1), the middle, and the
\* values around the last slots of the pool
RandVals == {0, 5000, 9990, 9999}

Perms(n) == {f \in [1..n -> 0..(n - 1)] : \A i, j \in 1..n : i # j => f[i] # f[j]}

\* what the generator is asked for on the path the call takes
RngOutcomes(a, size, replace, p) ==
    LET size1 == IF size = None THEN 1 ELSE size[1]
        rands == {[rand |-> r, perm |-> <<>>] : r \in [1..size1 -> RandVals]}
    IN  IF p = None
        THEN IF replace THEN rands
             ELSE {[rand |-> <<>>, perm |-> f] : f \in Perms(SourceLen(a))}
        ELSE IF BadSum(p[1]) \/ ~replace THEN {[rand |-> <<>>, perm |-> <<>>]}
        ELSE rands

CallRandomChoice ==
    /\ op = "idle"
    /\ \E a \in ChoiceSources, size \in {None} \cup {Some(k) : k \in 1..MaxSize},
          replace \in BOOLEAN :
       \E p \in {None} \cup {Some(pv) : pv \in PVecs(SourceLen(a))} :
       \E rng \in RngOutcomes(a, size, replace, p) :
          /\ op' = "th_random_choice"
          /\ args' = [a |-> a, size |-> size, replace |-> replace, p |-> p, rng |-> rng]
          /\ ret' = th_random_choice(a, size, replace, p, rng)
    /\ UNCHANGED build

InitChoice == op = "idle" /\ args = None /\ ret = None /\ build \in Builds

NextChoice == CallRandomChoice \/ Return

SpecChoice == InitChoice /\ [][NextChoice]_vars

IsChoiceCall == op = "th_random_choice"

\* C6: with a probability vector p the call ends in an error and returns no
\* samples in exactly these cases: the invalid-probability error when
\* |1 - sum(p)| > 1e-3, whatever replace is, and the invalid-configuration
\* error when p passes the sum check but replace is False; without p neither
\* error is raised.
C6_ChoiceErrors ==
    IsChoiceCall =>
        /\ args.p # None =>
              /\ BadSum(args.p[1]) <=> ret.err = "ValueError: p must sum to 1.0"
              /\ (~BadSum(args.p[1]) /\ ~args.replace) <=>
                    ret.err = "ValueError: replace must equal true if probabilities given"
              /\ ret.err # "none" <=> (BadSum(args.p[1]) \/ ~args.replace)
        /\ args.p = None =>
              ret.err \notin {"ValueError: p must sum to 1.0",
                              "ValueError: replace must equal true if probabilities given"}

\* C7: th_random_choice(n, size=size, replace=False) with no p and
\* 1 <= size <= n returns exactly `size` values, pairwise distinct, each an
\* integer in [0, n), for every outcome of the random permutation.
C7_WithoutReplacement ==
    (/\ IsChoiceCall
     /\ args.a.kind = "int"
     /\ args.p = None
     /\ ~args.replace
     /\ args.size # None
     /\ args.size[1] <= args.a.n) =>
        /\ ret.err = "none"
        /\ Len(ret.samples) = args.size[1]
        /\ \A j \in 1..Len(ret.samples) : ret.samples[j] \in 0..(args.a.n - 1)
        /\ \A i, j \in 1..Len(ret.samples) : i # j => ret.samples[i] # ret.samples[j]

\* two of three values drawn without replacement, from a permutation that is
\* not the identity
C7_Witness ==
    /\ IsChoiceCall
    /\ args.a = [kind |-> "int", n |-> 3, t |-> None]
    /\ args.p = None
    /\ ~args.replace
    /\ args.size = Some(2)
    /\ args.rng.perm = <<2, 0, 1>>
    /\ ret.samples = <<2, 0>>

\* C9: for every p that passes the sum check with replace=True the pool has
\* exactly 1000 slots, entry i occupying round(p_i*1000) of them, so every
\* index the sampler can draw (0 through 999) selects a pool slot and the call
\* returns `size` samples without an index error.
C9_PoolSlots ==
    (IsChoiceCall /\ args.p # None /\ ~BadSum(args.p[1]) /\ args.replace) =>
        /\ ret.pool = PoolCounts(args.p[1])
        /\ PoolLen(ret.pool) = PoolFactor
        /\ ret.err = "none"
        /\ Len(ret.samples) = IF args.size = None THEN 1 ELSE args.size[1]

====
